---------------------------- MODULE Spec2Model ----------------------------
(***************************************************************************)
(* A model of docker/internal/tarfile/writer.go: the Writer that builds a  *)
(* (docker save)-formatted tar archive.                                    *)
(*                                                                         *)
(* The file holds three groups of operations that share no state:          *)
(*   - the blob registry (Writer.blobs): tryReusingBlob, recordBlob;       *)
(*   - the entry emitter (Writer.tar): sendSymlink, sendBytes, sendFile;   *)
(*   - the image writers built on the emitter: writeLegacyLayerMetadata,   *)
(*     createManifest, createRepositoriesFile, Close.                      *)
(* No function of writer.go reads or writes both Writer.blobs and          *)
(* Writer.tar, so each group is explored by its own specification over the *)
(* same variables: SpecRegistry, SpecEmitter, Spec (one image written to   *)
(* one Writer) and SpecRepositories (several images' repositories files).  *)
(*                                                                         *)
(* Modelling conventions                                                   *)
(*   - A digest.Digest (a Go string "alg:hex") is the record               *)
(*     [alg, hex]; the empty digest "" is NoDigest.                        *)
(*   - digest.Canonical.FromString is a symbolic collision-free hash: the  *)
(*     hex part of the result is the text "H(" input ")".                  *)
(*   - A []byte / io.Reader is a sequence of tokens; its length is Len.    *)
(*     json.Marshal of a map yields one token [k, v] per member, in        *)
(*     sorted key order; of a one-element slice, one token.                *)
(*   - Calls into archive/tar and io (FileInfoHeader, WriteHeader,         *)
(*     io.Copy) can fail; which one fails is chosen by the action          *)
(*     (the "fault" argument of the send operators).                       *)
(***************************************************************************)
EXTENDS Integers, Sequences, FiniteSets, TLC

VARIABLES
    blobs,            \* Writer.blobs: digest -> BlobInfo
    recordLog,        \* history: the BlobInfo of every recordBlob call, in order
    tar,              \* Writer.tar: the entries written to the stream, in order
    pc,               \* where the caller / writeLegacyLayerMetadata stands
    layerDescriptors, \* argument of writeLegacyLayerMetadata
    configBytes,      \* argument of writeLegacyLayerMetadata
    i,                \* loop index of writeLegacyLayerMetadata (1-based)
    chainID,          \* local of writeLegacyLayerMetadata
    lastLayerID,      \* local / named result of writeLegacyLayerMetadata
    layerPaths,       \* local / named result of writeLegacyLayerMetadata
    layerIDs,         \* history: the layerID computed at each position so far
    ret,              \* what writeLegacyLayerMetadata returned
    faults,           \* number of failures injected into library calls so far
    imageLog,         \* history: the createRepositoriesFile calls, in order
    lastCall          \* the last completed call of the other operations

vars ==
    << blobs, recordLog, tar, pc, layerDescriptors, configBytes, i, chainID,
       lastLayerID, layerPaths, layerIDs, ret, faults, imageLog, lastCall >>

registryVars == << blobs, recordLog >>
legacyVars ==
    << layerDescriptors, configBytes, i, chainID, lastLayerID, layerPaths,
       layerIDs, ret >>

-----------------------------------------------------------------------------
(* Bounds of the exploration.                                              *)

MaxRecords == 3
MaxSize == 2
MaxLayers == 3
MaxFaults == 1
MaxTags == 2
MaxImages == 2
MaxEntries == 2

-----------------------------------------------------------------------------
(* Digests.                                                                *)

NoDigest == [alg |-> "", hex |-> ""]

\* Digest.String(): the Go string itself, "alg:hex"; "" for the empty digest.
DigestString(d) ==
    IF d = NoDigest THEN "" ELSE d.alg \o ":" \o d.hex

\* Digest.Hex(): the part after the ':' separator.
Hex(d) == d.hex

\* digest.Canonical.FromString(s): SHA-256 of s, as a symbolic injective term.
FromString(s) == [alg |-> "sha256", hex |-> "H(" \o s \o ")"]

DigestA == [alg |-> "sha256", hex |-> "aa"]
DigestB == [alg |-> "sha256", hex |-> "bb"]
\* A layer digest that happens to be the chain ID of [A, B].
DigestAB == FromString(DigestString(DigestA) \o " " \o DigestString(DigestB))

NoErr == "<nil>"

-----------------------------------------------------------------------------
(* The blob registry.                                                      *)

EmptyBlobInfo == [Digest |-> NoDigest, Size |-> 0]

RegistryDigests == {NoDigest, DigestA, DigestB}
BlobInfos == [Digest : RegistryDigests, Size : 1..MaxSize]

tryReusingBlob_sizeHint(b, info) ==
    IF info.Digest = NoDigest
    THEN [found |-> FALSE, info |-> EmptyBlobInfo,
          err |-> "Can not check for a blob with unknown digest"]
    ELSE IF info.Digest \in DOMAIN b
    THEN [found |-> TRUE,
          info |-> [Digest |-> info.Digest, Size |-> info.Size],
          err |-> NoErr]
    ELSE [found |-> FALSE, info |-> EmptyBlobInfo, err |-> NoErr]

tryReusingBlob(b, info) ==
    IF info.Digest = NoDigest
    THEN [found |-> FALSE, info |-> EmptyBlobInfo,
          err |-> "Can not check for a blob with unknown digest"]
    ELSE IF info.Digest \in DOMAIN b
    THEN [found |-> TRUE,
          info |-> [Digest |-> info.Digest, Size |-> b[info.Digest].Size],
          err |-> NoErr]
    ELSE [found |-> FALSE, info |-> EmptyBlobInfo, err |-> NoErr]

recordBlob_keepFirst(b, info) ==
    IF info.Digest \in DOMAIN b
    THEN b
    ELSE [d \in DOMAIN b \cup {info.Digest} |->
            IF d = info.Digest THEN info ELSE b[d]]

recordBlob(b, info) ==
    [d \in DOMAIN b \cup {info.Digest} |->
        IF d = info.Digest THEN info ELSE b[d]]

NoCall == [op |-> "none"]

InitCommon ==
    /\ blobs = [d \in {} |-> EmptyBlobInfo]
    /\ recordLog = << >>
    /\ tar = << >>
    /\ pc = "open"
    /\ layerDescriptors = << >>
    /\ configBytes = [kind |-> "none", members |-> [k \in {} |-> ""]]
    /\ i = 0
    /\ chainID = NoDigest
    /\ lastLayerID = ""
    /\ layerPaths = << >>
    /\ layerIDs = << >>
    /\ ret = [layerPaths |-> << >>, lastLayerID |-> "", err |-> NoErr]
    /\ faults = 0
    /\ imageLog = << >>
    /\ lastCall = NoCall

TryReusingBlob ==
    \E info \in BlobInfos :
        /\ lastCall' = [op |-> "tryReusingBlob", info |-> info,
                        ret |-> tryReusingBlob(blobs, info)]
        /\ UNCHANGED << registryVars, tar, pc, legacyVars, faults, imageLog >>

RecordBlob ==
    \E info \in BlobInfos :
        /\ Len(recordLog) < MaxRecords
        /\ blobs' = recordBlob(blobs, info)
        /\ recordLog' = Append(recordLog, info)
        /\ lastCall' = [op |-> "recordBlob", info |-> info]
        /\ UNCHANGED << tar, pc, legacyVars, faults, imageLog >>

NextRegistry == TryReusingBlob \/ RecordBlob

SpecRegistry == InitCommon /\ [][NextRegistry]_vars

-----------------------------------------------------------------------------
(* The entry emitter: tarFI, sendSymlink, sendBytes, sendFile.             *)

ModeSymlink == 134217728
ModeRegular == 292
EpochSeconds == 0

tarFI_Name(t) == t.path
tarFI_Size(t) == t.size
tarFI_Mode(t) == IF t.isSymlink THEN ModeSymlink ELSE ModeRegular
tarFI_ModTime(t) == EpochSeconds
tarFI_IsDir(t) == FALSE

\* tar.FileInfoHeader(fi, link) on a tarFI: the type comes from the mode's
\* type bits, the header's mode is the permission bits, the size is taken
\* for regular files only and the link name for symlinks only.
FileInfoHeader(fi, link) ==
    LET fm == tarFI_Mode(fi)
        regular == fm \div 512 = 0
    IN  [Name     |-> tarFI_Name(fi),
         Typeflag |-> IF regular THEN "TypeReg" ELSE "TypeSymlink",
         Mode     |-> fm % 512,
         ModTime  |-> tarFI_ModTime(fi),
         Size     |-> IF regular THEN tarFI_Size(fi) ELSE 0,
         Linkname |-> IF regular THEN "" ELSE link]

\* Which library call of a send fails, if any.
SymlinkFaults == {"none", "header", "writeHeader"}
FileFaults == {"none", "header", "writeHeader", "copy"}

ErrWriteHeader == "archive/tar: write error"
ErrCopy == "io: read/write error"
ErrWriteTooLong == "archive/tar: write too long"
ErrSizeMismatch == "Size mismatch when copying"

Min(a, b) == IF a < b THEN a ELSE b

\* sendSymlink: each result is [tar |-> the stream afterwards, err |-> error].
sendSymlink(t, path, target, fault) ==
    LET hdr == FileInfoHeader([path |-> path, size |-> 0, isSymlink |-> TRUE],
                              target)
    IN  IF fault = "header"
        THEN [tar |-> t, err |-> NoErr]
        ELSE IF fault = "writeHeader"
        THEN [tar |-> t, err |-> ErrWriteHeader]
        ELSE [tar |-> Append(t, [hdr |-> hdr, body |-> << >>]), err |-> NoErr]

\* sendFile: the tar writer accepts at most hdr.Size payload bytes and
\* reports ErrWriteTooLong for the rest; a failing copy (fault "copy") is a
\* stream whose first read fails.
sendFile(t, path, expectedSize, stream, fault) ==
    LET hdr == FileInfoHeader(
                   [path |-> path, size |-> expectedSize, isSymlink |-> FALSE],
                   "")
        size == Min(Len(stream), expectedSize)
        copied == SubSeq(stream, 1, size)
    IN  IF fault = "header"
        THEN [tar |-> t, err |-> NoErr]
        ELSE IF fault = "writeHeader"
        THEN [tar |-> t, err |-> ErrWriteHeader]
        ELSE IF fault = "copy"
        THEN [tar |-> Append(t, [hdr |-> hdr, body |-> << >>]),
              err |-> ErrCopy]
        ELSE IF Len(stream) > expectedSize
        THEN [tar |-> Append(t, [hdr |-> hdr, body |-> copied]),
              err |-> ErrWriteTooLong]
        ELSE IF size # expectedSize
        THEN [tar |-> Append(t, [hdr |-> hdr, body |-> copied]),
              err |-> ErrSizeMismatch]
        ELSE [tar |-> Append(t, [hdr |-> hdr, body |-> copied]),
              err |-> NoErr]

sendBytes(t, path, b, fault) == sendFile(t, path, Len(b), b, fault)

\* errors.Wrap(err, message)
Wrap(err, message) == message \o ": " \o err

\* filepath.Join of two clean elements (an empty element is ignored).
Join(a, b) ==
    IF a = "" THEN b ELSE IF b = "" THEN a ELSE a \o "/" \o b

Bytes(n) == [k \in 1..n |-> "x"]
Streams == {Bytes(n) : n \in 0..(MaxSize + 1)}
EmitterPaths == {"f", "g"}

SendSymlink ==
    \E path \in EmitterPaths, fault \in SymlinkFaults :
        LET s == sendSymlink(tar, path, Join("..", "f"), fault)
        IN  /\ Len(tar) < MaxEntries
            /\ tar' = s.tar
            /\ lastCall' = [op |-> "sendSymlink", path |-> path,
                            expectedSize |-> 0, stream |-> << >>,
                            fault |-> fault, before |-> Len(tar),
                            err |-> s.err]
            /\ UNCHANGED << registryVars, pc, legacyVars, faults, imageLog >>

SendBytes ==
    \E path \in EmitterPaths, b \in Streams, fault \in FileFaults :
        LET s == sendBytes(tar, path, b, fault)
        IN  /\ Len(tar) < MaxEntries
            /\ tar' = s.tar
            /\ lastCall' = [op |-> "sendBytes", path |-> path,
                            expectedSize |-> Len(b), stream |-> b,
                            fault |-> fault, before |-> Len(tar),
                            err |-> s.err]
            /\ UNCHANGED << registryVars, pc, legacyVars, faults, imageLog >>

SendFile ==
    \E path \in EmitterPaths, expectedSize \in 0..MaxSize,
       stream \in Streams, fault \in FileFaults :
        LET s == sendFile(tar, path, expectedSize, stream, fault)
        IN  /\ Len(tar) < MaxEntries
            /\ tar' = s.tar
            /\ lastCall' = [op |-> "sendFile", path |-> path,
                            expectedSize |-> expectedSize, stream |-> stream,
                            fault |-> fault, before |-> Len(tar),
                            err |-> s.err]
            /\ UNCHANGED << registryVars, pc, legacyVars, faults, imageLog >>

NextEmitter == SendSymlink \/ SendBytes \/ SendFile

SpecEmitter == InitCommon /\ [][NextEmitter]_vars

-----------------------------------------------------------------------------
(* The image writers: writeLegacyLayerMetadata, createManifest,            *)
(* createRepositoriesFile, Close.                                          *)

legacyLayerFileName == "layer.tar"
legacyVersionFileName == "VERSION"
legacyConfigFileName == "json"
legacyRepositoriesFileName == "repositories"
manifestFileName == "manifest.json"

configPath(configDigest) == Hex(configDigest) \o ".json"

physicalLayerPath_nested(layerDigest) ==
    Join(Hex(layerDigest), legacyLayerFileName)

physicalLayerPath(layerDigest) == Hex(layerDigest) \o ".tar"

ChainStep_noSeparator(chain, layerDigest) ==
    IF chain = NoDigest
    THEN layerDigest
    ELSE FromString(DigestString(chain) \o DigestString(layerDigest))

ChainStep_noHistory(chain, layerDigest) == layerDigest

\* Lines 64-68: the running chain ID after one more layer.
ChainStep(chain, layerDigest) ==
    IF chain = NoDigest
    THEN layerDigest
    ELSE FromString(DigestString(chain) \o " " \o DigestString(layerDigest))

\* JSON values: a Go string, a *json.RawMessage (verbatim text), or nil.
JsonString(x) == [t |-> "string", s |-> x]
JsonRaw(x) == [t |-> "raw", s |-> x]
JsonNull == [t |-> "null", s |-> ""]

PassthroughAttrs ==
    << "architecture", "config", "container", "container_config", "created",
       "docker_version", "os" >>

Range(f) == {f[x] : x \in DOMAIN f}

\* json.Unmarshal(configBytes, &config) into map[string]*json.RawMessage:
\* succeeds for a JSON object (and for null), fails for anything else.
Unmarshal(b) ==
    IF b.kind \in {"object", "null"}
    THEN [err |-> NoErr, config |-> b.members]
    ELSE [err |-> "invalid character or wrong JSON type",
          config |-> [k \in {} |-> ""]]

LayerConfig_parentAlways(layerID, lastID, isTop, config) ==
    LET keys == {"id", "parent"}
                  \cup (IF isTop THEN Range(PassthroughAttrs) ELSE {})
    IN  [k \in keys |->
            IF k = "id" THEN JsonString(layerID)
            ELSE IF k = "parent" THEN JsonString(lastID)
            ELSE IF k \in DOMAIN config THEN JsonRaw(config[k])
            ELSE JsonNull]

\* Lines 95-112: the per-layer legacy configuration map.
LayerConfig(layerID, lastID, isTop, config) ==
    LET keys == {"id"}
                  \cup (IF lastID # "" THEN {"parent"} ELSE {})
                  \cup (IF isTop THEN Range(PassthroughAttrs) ELSE {})
    IN  [k \in keys |->
            IF k = "id" THEN JsonString(layerID)
            ELSE IF k = "parent" THEN JsonString(lastID)
            ELSE IF k \in DOMAIN config THEN JsonRaw(config[k])
            ELSE JsonNull]

\* json.Marshal of a map: one member token per key, keys in sorted order
\* (order lists the possible keys, sorted).
MarshalMap(m, order) ==
    LET ks == SelectSeq(order, LAMBDA k : k \in DOMAIN m)
    IN  [j \in 1..Len(ks) |-> [k |-> ks[j], v |-> m[ks[j]]]]

LayerConfigKeyOrder ==
    << "architecture", "config", "container", "container_config", "created",
       "docker_version", "id", "os", "parent" >>

VersionBytes == << "1", ".", "0" >>

\* Inputs of writeLegacyLayerMetadata.
LayerDigests == {DigestA, DigestB, DigestAB}
Descriptors == {[Digest |-> d] : d \in LayerDigests}
LayerSeqs == UNION {[1..n -> Descriptors] : n \in 0..MaxLayers}

ConfigFull ==
    [kind |-> "object",
     members |->
        [k \in Range(PassthroughAttrs) \cup {"rootfs"} |-> "<" \o k \o ">"]]
ConfigPartial ==
    [kind |-> "object",
     members |-> [k \in {"architecture", "os", "history"} |-> "<" \o k \o ">"]]
ConfigArray == [kind |-> "array", members |-> [k \in {} |-> ""]]
ConfigGarbage == [kind |-> "invalid", members |-> [k \in {} |-> ""]]
Configs == {ConfigFull, ConfigPartial, ConfigArray, ConfigGarbage}

FaultCount(fs) == Cardinality({k \in DOMAIN fs : fs[k] # "none"})

\* Lines 62-122: one iteration of the loop over layerDescriptors, with the
\* outcomes f[1], f[2], f[3] of its three sends.  "done" says the function
\* returned from inside the iteration.
LegacyLayerIteration(f) ==
    LET l == layerDescriptors[i]
        newChain == ChainStep(chainID, l.Digest)
        layerID == Hex(newChain)
        path == physicalLayerPath(l.Digest)
        paths == Append(layerPaths, path)
        s1 == sendSymlink(tar, Join(layerID, legacyLayerFileName),
                          Join("..", path), f[1])
        s2 == sendBytes(s1.tar, Join(layerID, legacyVersionFileName),
                        VersionBytes, f[2])
        isTop == i = Len(layerDescriptors)
        parsed == Unmarshal(configBytes)
        layerConfig == LayerConfig(layerID, lastLayerID, isTop, parsed.config)
        s3 == sendBytes(s2.tar, Join(layerID, legacyConfigFileName),
                        MarshalMap(layerConfig, LayerConfigKeyOrder), f[3])
        fail(t, e, used) ==
            [done |-> TRUE, tar |-> t, err |-> e, used |-> used,
             chainID |-> newChain, layerPaths |-> paths, layerID |-> layerID]
    IN  IF s1.err # NoErr
        THEN fail(s1.tar, Wrap(s1.err, "Error creating layer symbolic link"), 1)
        ELSE IF s2.err # NoErr
        THEN fail(s2.tar, Wrap(s2.err, "Error writing VERSION file"), 2)
        ELSE IF isTop /\ parsed.err # NoErr
        THEN fail(s2.tar, Wrap(parsed.err, "Error unmarshaling config"), 2)
        ELSE IF s3.err # NoErr
        THEN fail(s3.tar, Wrap(s3.err, "Error writing config json file"), 3)
        ELSE [done |-> FALSE, tar |-> s3.tar, err |-> NoErr, used |-> 3,
              chainID |-> newChain, layerPaths |-> paths, layerID |-> layerID]

\* Lines 59-61: the call, with its arguments.
WriteLegacyLayerMetadataCall ==
    \E layers \in LayerSeqs, config \in Configs :
        /\ pc = "open"
        /\ layerDescriptors' = layers
        /\ configBytes' = config
        /\ i' = 1
        /\ chainID' = NoDigest
        /\ lastLayerID' = ""
        /\ layerPaths' = << >>
        /\ layerIDs' = << >>
        /\ pc' = "loop"
        /\ UNCHANGED << registryVars, tar, ret, faults, imageLog, lastCall >>

\* Lines 62-122: one layer.  The sends after the one that made the function
\* return are not made, so their outcome is "none".
WriteLegacyLayerMetadataLayer ==
    \E f \in [1..3 -> FileFaults] :
        LET r == LegacyLayerIteration(f)
        IN  /\ pc = "loop"
            /\ i <= Len(layerDescriptors)
            /\ f[1] \in SymlinkFaults
            /\ \A k \in (r.used + 1)..3 : f[k] = "none"
            /\ faults + FaultCount(f) <= MaxFaults
            /\ faults' = faults + FaultCount(f)
            /\ tar' = r.tar
            /\ chainID' = r.chainID
            /\ layerIDs' = Append(layerIDs, r.layerID)
            /\ IF r.done
               THEN /\ ret' = [layerPaths |-> << >>, lastLayerID |-> "",
                               err |-> r.err]
                    /\ pc' = "returned"
                    /\ UNCHANGED << i, lastLayerID, layerPaths >>
               ELSE /\ layerPaths' = r.layerPaths
                    /\ lastLayerID' = r.layerID
                    /\ i' = i + 1
                    /\ UNCHANGED << ret, pc >>
            /\ UNCHANGED << registryVars, layerDescriptors, configBytes,
                            imageLog, lastCall >>

\* Line 123: the loop is over.
WriteLegacyLayerMetadataReturn ==
    /\ pc = "loop"
    /\ i > Len(layerDescriptors)
    /\ ret' = [layerPaths |-> layerPaths, lastLayerID |-> lastLayerID,
               err |-> NoErr]
    /\ pc' = "returned"
    /\ UNCHANGED << registryVars, tar, layerDescriptors, configBytes, i,
                    chainID, lastLayerID, layerPaths, layerIDs, faults,
                    imageLog, lastCall >>

\* reference.NamedTagged values: Name() and Tag().
Tags ==
    { [name |-> "docker.io/library/busybox", tag |-> "latest"],
      [name |-> "docker.io/library/busybox", tag |-> "v1"],
      [name |-> "docker.io/library/alpine", tag |-> "latest"] }
TagSeqs == UNION {[1..n -> Tags] : n \in 0..MaxTags}
RepoNameOrder == << "docker.io/library/alpine", "docker.io/library/busybox" >>

\* The tag lists of the one image of Spec: the prefixes of one list.
ImageTags ==
    << [name |-> "docker.io/library/busybox", tag |-> "latest"],
       [name |-> "docker.io/library/alpine", tag |-> "latest"],
       [name |-> "docker.io/library/busybox", tag |-> "v1"] >>
ImageTagSeqs ==
    {SubSeq(ImageTags, 1, n) : n \in 0..Min(MaxTags, Len(ImageTags))}

ConfigDigest == [alg |-> "sha256", hex |-> "cc"]

\* Lines 147-174: the ManifestItem of createManifest.
ManifestItemOf(configDigest, paths, repoTags) ==
    [Config   |-> configPath(configDigest),
     RepoTags |-> [k \in 1..Len(repoTags) |->
                      repoTags[k].name \o ":" \o repoTags[k].tag],
     Layers   |-> paths,
     Parent   |-> ""]

\* Lines 146-183.  json.Marshal(&items) of the one-element slice is one token.
createManifest(t, configDigest, paths, repoTags, fault) ==
    LET items == << ManifestItemOf(configDigest, paths, repoTags) >>
    IN  sendBytes(t, manifestFileName, items, fault)

\* The caller passes the paths writeLegacyLayerMetadata returned.
CreateManifest ==
    \E repoTags \in ImageTagSeqs, fault \in FileFaults :
        LET s == createManifest(tar, ConfigDigest, ret.layerPaths, repoTags,
                                fault)
            n == IF fault = "none" THEN 0 ELSE 1
        IN  /\ pc = "returned"
            /\ ret.err = NoErr
            /\ faults + n <= MaxFaults
            /\ faults' = faults + n
            /\ tar' = s.tar
            /\ lastCall' = [op |-> "createManifest", repoTags |-> repoTags,
                            layerPaths |-> ret.layerPaths, err |-> s.err]
            /\ pc' = "manifested"
            /\ UNCHANGED << registryVars, legacyVars, imageLog >>

\* Lines 188-190: Close, called once the images' repositories are written.
Close ==
    /\ pc = "open"
    /\ pc' = "closed"
    /\ UNCHANGED << registryVars, tar, legacyVars, faults, imageLog, lastCall >>

Next ==
    \/ WriteLegacyLayerMetadataCall
    \/ WriteLegacyLayerMetadataLayer
    \/ WriteLegacyLayerMetadataReturn
    \/ CreateManifest

Spec == InitCommon /\ [][Next]_vars

\* Lines 127-134: the fold of createRepositoriesFile over repoTags[k..].
RECURSIVE RepositoriesFold(_, _, _, _)
RepositoriesFold(repositories, rootLayerID, repoTags, k) ==
    IF k > Len(repoTags)
    THEN repositories
    ELSE LET name == repoTags[k].name
             tag == repoTags[k].tag
             val == IF name \in DOMAIN repositories
                    THEN [x \in DOMAIN repositories[name] \cup {tag} |->
                            IF x = tag THEN rootLayerID
                            ELSE repositories[name][x]]
                    ELSE [x \in {tag} |-> rootLayerID]
         IN  RepositoriesFold(
                 [n \in DOMAIN repositories \cup {name} |->
                     IF n = name THEN val ELSE repositories[n]],
                 rootLayerID, repoTags, k + 1)

\* Lines 126-144.
createRepositoriesFile(t, rootLayerID, repoTags, fault) ==
    LET repositories ==
            RepositoriesFold([n \in {} |-> << >>], rootLayerID, repoTags, 1)
        s == sendBytes(t, legacyRepositoriesFileName,
                       MarshalMap(repositories, RepoNameOrder), fault)
    IN  [tar |-> s.tar,
         err |-> IF s.err = NoErr THEN NoErr
                 ELSE Wrap(s.err, "Error writing config json file")]

\* Top legacy layer IDs of the images written: of [A], of [B], of [A, B].
RootLayerIDs == {Hex(DigestA), Hex(DigestB), Hex(DigestAB)}

\* One call per image written to the archive.
CreateRepositoriesFile ==
    \E rootLayerID \in RootLayerIDs, repoTags \in TagSeqs,
       fault \in FileFaults :
        LET s == createRepositoriesFile(tar, rootLayerID, repoTags, fault)
        IN  /\ pc = "open"
            /\ Len(imageLog) < MaxImages
            /\ tar' = s.tar
            /\ imageLog' = Append(imageLog,
                               [rootLayerID |-> rootLayerID,
                                repoTags |-> repoTags,
                                written |-> Len(s.tar) > Len(tar),
                                err |-> s.err])
            /\ UNCHANGED << registryVars, pc, legacyVars, faults, lastCall >>

NextRepositories == CreateRepositoriesFile \/ Close

SpecRepositories == InitCommon /\ [][NextRepositories]_vars

-----------------------------------------------------------------------------
(* Properties of the blob registry (checked under SpecRegistry).           *)

Recorded(d) == \E k \in 1..Len(recordLog) : recordLog[k].Digest = d

FirstRecordedSize(d) ==
    LET k == CHOOSE k \in 1..Len(recordLog) :
                /\ recordLog[k].Digest = d
                /\ \A j \in 1..(k - 1) : recordLog[j].Digest # d
    IN  recordLog[k].Size

LastRecordedSize(d) ==
    LET k == CHOOSE k \in 1..Len(recordLog) :
                /\ recordLog[k].Digest = d
                /\ \A j \in (k + 1)..Len(recordLog) : recordLog[j].Digest # d
    IN  recordLog[k].Size

\* C1 as stated: once a digest has been recorded, every later tryReusingBlob of
\* that (non-empty) digest reports found with the size of the FIRST record,
\* whatever was recorded for the digest afterwards.
C1_FirstRecordWins ==
    (lastCall.op = "tryReusingBlob"
        /\ lastCall.info.Digest # NoDigest
        /\ Recorded(lastCall.info.Digest))
    => (lastCall.ret.found
        /\ lastCall.ret.info.Size = FirstRecordedSize(lastCall.info.Digest))

\* C1 amended: the registry holds exactly one entry per recorded digest, and
\* it is the MOST RECENT record of that digest; every tryReusingBlob of a
\* recorded non-empty digest reports found with that most recent size.
C1_LastRecordWins ==
    /\ DOMAIN blobs = {recordLog[k].Digest : k \in 1..Len(recordLog)}
    /\ \A d \in DOMAIN blobs :
          blobs[d] = [Digest |-> d, Size |-> LastRecordedSize(d)]
    /\ (lastCall.op = "tryReusingBlob"
           /\ lastCall.info.Digest # NoDigest
           /\ Recorded(lastCall.info.Digest))
       => (lastCall.ret.found
           /\ lastCall.ret.info.Size = LastRecordedSize(lastCall.info.Digest))

\* A digest recorded twice with different sizes, then looked up.
C1_Witness ==
    /\ lastCall.op = "tryReusingBlob"
    /\ lastCall.info.Digest # NoDigest
    /\ Recorded(lastCall.info.Digest)
    /\ FirstRecordedSize(lastCall.info.Digest)
         # LastRecordedSize(lastCall.info.Digest)
    /\ lastCall.ret.found
    /\ lastCall.ret.info.Size = LastRecordedSize(lastCall.info.Digest)

ReuseMatchesReference ==
    LET a == lastCall.info
        r == lastCall.ret
    IN  IF a.Digest = NoDigest
        THEN r.err # NoErr /\ ~r.found
        ELSE IF Recorded(a.Digest)
        THEN /\ r.found
             /\ r.info = [Digest |-> a.Digest,
                          Size |-> LastRecordedSize(a.Digest)]
             /\ r.err = NoErr
        ELSE r = [found |-> FALSE, info |-> EmptyBlobInfo, err |-> NoErr]

\* C2: every tryReusingBlob call leaves the registry unchanged and returns
\* what the reference says: an error and found = FALSE for the empty digest
\* (even when an empty-digest entry was recorded); found = TRUE with
\* (digest, recorded size), independent of the size hint, exactly when the
\* digest was recorded; (FALSE, empty info, no error) otherwise.
C2_TryReuseReference ==
    [][lastCall'.op = "tryReusingBlob"
         => (blobs' = blobs /\ ReuseMatchesReference')]_vars

\* The empty digest is looked up although an empty-digest entry was recorded.
C2_Witness ==
    /\ lastCall.op = "tryReusingBlob"
    /\ lastCall.info.Digest = NoDigest
    /\ NoDigest \in DOMAIN blobs
    /\ \E d \in DOMAIN blobs : d # NoDigest
    /\ lastCall.ret.err # NoErr
    /\ ~lastCall.ret.found

-----------------------------------------------------------------------------
(* Properties of the entry emitter (checked under SpecEmitter).            *)

SendFileOutcomeOK ==
    /\ (Len(lastCall.stream) # lastCall.expectedSize => lastCall.err # NoErr)
    /\ (lastCall.err = NoErr =>
           /\ Len(tar) = lastCall.before + 1
           /\ tar[Len(tar)].hdr.Name = lastCall.path
           /\ tar[Len(tar)].hdr.Size = lastCall.expectedSize
           /\ tar[Len(tar)].body = lastCall.stream
           /\ Len(lastCall.stream) = lastCall.expectedSize)

\* C7: sendFile returns an error whenever the stream's length differs from
\* expectedSize, and returns success only when a header was written and
\* exactly expectedSize payload bytes (the whole stream) followed it.
C7_SendFileSizeChecked ==
    lastCall.op = "sendFile" => SendFileOutcomeOK

\* What does hold: the same, for the calls whose header was constructed.
SendFileSizeCheckedOnceHeaderBuilt ==
    (lastCall.op = "sendFile" /\ lastCall.fault # "header")
        => SendFileOutcomeOK

-----------------------------------------------------------------------------
(* Properties of writeLegacyLayerMetadata and createManifest (under Spec). *)

\* The entries written under a name: header and the whole payload the
\* header announces (an entry whose copy failed is not one).
EntriesNamed(name) ==
    {k \in 1..Len(tar) :
        tar[k].hdr.Name = name /\ Len(tar[k].body) = tar[k].hdr.Size}
HasEntry(name) == EntriesNamed(name) # {}
LastEntry(name) ==
    tar[CHOOSE k \in EntriesNamed(name) : \A j \in EntriesNamed(name) : j <= k]

NumLayers == Len(layerDescriptors)
LayerDigestAt(k) == layerDescriptors[k].Digest
SymlinkName(k) == Join(layerIDs[k], legacyLayerFileName)
VersionName(k) == Join(layerIDs[k], legacyVersionFileName)
JsonName(k) == Join(layerIDs[k], legacyConfigFileName)

ReturnedOK == pc \in {"returned", "manifested"} /\ ret.err = NoErr
AllJsonWritten == \A k \in 1..NumLayers : HasEntry(JsonName(k))

\* The chain ID of the last layer of a non-empty digest sequence, by position:
\* the digest itself for one layer, else the hash of
\* <chain ID of the shorter prefix> " " <digest of the last layer>.
RECURSIVE ChainIDOfPrefix(_)
ChainIDOfPrefix(digests) ==
    IF Len(digests) = 1
    THEN digests[1]
    ELSE FromString(
             DigestString(ChainIDOfPrefix(SubSeq(digests, 1, Len(digests) - 1)))
                 \o " " \o DigestString(digests[Len(digests)]))

DigestPrefix(k) == [j \in 1..k |-> LayerDigestAt(j)]

\* C3: at every position reached, the running chain ID (and the legacy layer
\* ID, its hex) is the value the by-position definition gives for the digest
\* prefix up to that position, and for nothing else of the input: the layer
\* digest at position 0, hash(previous chain ID + " " + digest) after it.
C3_ChainIDByPosition ==
    /\ \A k \in 1..Len(layerIDs) :
          layerIDs[k] = Hex(ChainIDOfPrefix(DigestPrefix(k)))
    /\ Len(layerIDs) >= 1 =>
          chainID = ChainIDOfPrefix(DigestPrefix(Len(layerIDs)))

\* All three positions of a three-layer image were processed.
C3_Witness ==
    /\ ReturnedOK
    /\ NumLayers = 3
    /\ Len(layerIDs) = 3
    /\ chainID = ChainIDOfPrefix(DigestPrefix(3))
    /\ chainID # LayerDigestAt(3)

JsonDoc(entry) ==
    [k \in {entry.body[j].k : j \in 1..Len(entry.body)} |->
        LET j == CHOOSE j \in 1..Len(entry.body) : entry.body[j].k = k
        IN  entry.body[j].v]

\* The ids met by following the written "parent" links from id, at most
\* fuel of them.
RECURSIVE ParentWalk(_, _)
ParentWalk(id, fuel) ==
    LET name == Join(id, legacyConfigFileName)
    IN  IF fuel = 0 \/ ~HasEntry(name)
        THEN << >>
        ELSE LET doc == JsonDoc(LastEntry(name))
             IN  IF "parent" \in DOMAIN doc
                 THEN << id >> \o ParentWalk(doc["parent"].s, fuel - 1)
                 ELSE << id >>

Reverse(seq) == [k \in 1..Len(seq) |-> seq[Len(seq) + 1 - k]]

\* C4: the legacy layer IDs of distinct positions of one call differ, also
\* when a digest repeats; the ID of the first position is its digest's hex;
\* and following the written parent links from the top layer never meets an
\* ID twice: when every json was written it visits every position once, top
\* to root, and stops there.
C4_LayerIDsDistinctNoCycle ==
    /\ \A p, q \in 1..Len(layerIDs) : p # q => layerIDs[p] # layerIDs[q]
    /\ Len(layerIDs) >= 1 => layerIDs[1] = Hex(LayerDigestAt(1))
    /\ (ReturnedOK /\ NumLayers >= 1) =>
          LET walk == ParentWalk(ret.lastLayerID, NumLayers + 1)
          IN  /\ \A p, q \in 1..Len(walk) : p # q => walk[p] # walk[q]
              /\ AllJsonWritten => walk = Reverse(layerIDs)

\* The layers [A, B, A] were written, with every json.
C4_Witness ==
    /\ ReturnedOK
    /\ NumLayers = 3
    /\ LayerDigestAt(1) = DigestA
    /\ LayerDigestAt(2) = DigestB
    /\ LayerDigestAt(3) = DigestA
    /\ AllJsonWritten
    /\ layerIDs[1] = Hex(DigestA)
    /\ layerIDs[3] # layerIDs[1]
    /\ Len(ParentWalk(ret.lastLayerID, NumLayers + 1)) = 3

\* C5: every per-layer json written has "id" = that layer's legacy ID; has
\* "parent" exactly when the layer is not the first, and then the legacy ID
\* of the layer before; and has the seven passthrough keys exactly when the
\* layer is the last one, each with the configuration's raw value (null when
\* the configuration has no such key).
C5_LayerJsonShape ==
    \A k \in 1..Len(layerIDs) : \A e \in EntriesNamed(JsonName(k)) :
        LET doc == JsonDoc(tar[e])
            config == Unmarshal(configBytes).config
        IN  /\ "id" \in DOMAIN doc
            /\ doc["id"] = JsonString(layerIDs[k])
            /\ ("parent" \in DOMAIN doc) <=> (k > 1)
            /\ k > 1 => doc["parent"] = JsonString(layerIDs[k - 1])
            /\ IF k = NumLayers
               THEN \A a \in Range(PassthroughAttrs) :
                       /\ a \in DOMAIN doc
                       /\ doc[a] = IF a \in DOMAIN config
                                   THEN JsonRaw(config[a])
                                   ELSE JsonNull
               ELSE Range(PassthroughAttrs) \cap DOMAIN doc = {}

\* A three-layer image with a parsable configuration, every json written.
C5_Witness ==
    /\ ReturnedOK
    /\ NumLayers = 3
    /\ configBytes = ConfigPartial
    /\ AllJsonWritten
    /\ "parent" \in DOMAIN JsonDoc(LastEntry(JsonName(3)))
    /\ "os" \in DOMAIN JsonDoc(LastEntry(JsonName(3)))
    /\ "parent" \notin DOMAIN JsonDoc(LastEntry(JsonName(1)))

ConfigUnparsable == Unmarshal(configBytes).err # NoErr

\* C6: whatever the layer sequence, a call with an unparsable configuration
\* (and no failing write) returns the "Error unmarshaling config" error, no
\* layer paths and no top layer ID.
C6_MalformedConfigFails ==
    (pc = "returned" /\ ConfigUnparsable /\ faults = 0) =>
        /\ ret.err = Wrap(Unmarshal(configBytes).err,
                          "Error unmarshaling config")
        /\ ret.layerPaths = << >>
        /\ ret.lastLayerID = ""

\* What does hold: the same for the non-empty layer sequences.
MalformedConfigFailsWithLayers ==
    (pc = "returned" /\ ConfigUnparsable /\ faults = 0 /\ NumLayers >= 1) =>
        /\ ret.err = Wrap(Unmarshal(configBytes).err,
                          "Error unmarshaling config")
        /\ ret.layerPaths = << >>
        /\ ret.lastLayerID = ""

\* C9: a successful call returns one path per layer, base to top, each the
\* digest's hex + ".tar"; the top ID returned is the last layer's legacy ID;
\* every layer.tar symlink written points to "../" + that layer's path; and
\* every manifest written holds one item, with exactly the returned paths as
\* Layers and an empty Parent.
C9_PathsSymlinksManifest ==
    /\ ReturnedOK =>
          /\ Len(ret.layerPaths) = NumLayers
          /\ \A k \in 1..NumLayers :
                ret.layerPaths[k] = Hex(LayerDigestAt(k)) \o ".tar"
          /\ ret.lastLayerID =
                (IF NumLayers = 0 THEN "" ELSE layerIDs[NumLayers])
    /\ \A k \in 1..Len(layerIDs) : \A e \in EntriesNamed(SymlinkName(k)) :
          /\ tar[e].hdr.Typeflag = "TypeSymlink"
          /\ tar[e].hdr.Linkname = "../" \o Hex(LayerDigestAt(k)) \o ".tar"
          /\ tar[e].hdr.Size = 0
          /\ tar[e].body = << >>
    /\ \A e \in EntriesNamed(manifestFileName) :
          /\ Len(tar[e].body) = 1
          /\ tar[e].body[1].Layers = ret.layerPaths
          /\ tar[e].body[1].Parent = ""
    /\ (pc = "manifested" /\ lastCall.err = NoErr /\ faults = 0) =>
          Cardinality(EntriesNamed(manifestFileName)) = 1

\* [A, B, A] written with its three symlinks and its manifest.
C9_Witness ==
    /\ pc = "manifested"
    /\ lastCall.err = NoErr
    /\ NumLayers = 3
    /\ LayerDigestAt(1) = LayerDigestAt(3)
    /\ LayerDigestAt(1) # LayerDigestAt(2)
    /\ \A k \in 1..3 : HasEntry(SymlinkName(k))
    /\ HasEntry(manifestFileName)
    /\ LastEntry(manifestFileName).body[1].Layers[1]
         = LastEntry(manifestFileName).body[1].Layers[3]

\* C10: a call in which a library call failed returns an error, and a call
\* that returns success has written all 3*n entries (symlink, VERSION and
\* json of every layer) to the tar stream.
C10_EveryFailureReported ==
    pc = "returned" =>
        /\ faults > 0 => ret.err # NoErr
        /\ ret.err = NoErr =>
              \A k \in 1..NumLayers :
                  /\ HasEntry(SymlinkName(k))
                  /\ HasEntry(VersionName(k))
                  /\ HasEntry(JsonName(k))

-----------------------------------------------------------------------------
(* Properties of createRepositoriesFile (checked under SpecRepositories).  *)

\* The repositories index an archive reader sees: the last entry written
\* under the repositories file name, as name -> tag -> layer ID.
ArchiveRepositories == JsonDoc(LastEntry(legacyRepositoriesFileName))

Supplies(k, name, tag) ==
    \E j \in 1..Len(imageLog[k].repoTags) :
        /\ imageLog[k].repoTags[j].name = name
        /\ imageLog[k].repoTags[j].tag = tag

AllImagesWritten ==
    /\ imageLog # << >>
    /\ \A k \in 1..Len(imageLog) : imageLog[k].err = NoErr /\ imageLog[k].written

\* C8: once the repositories files of several images were written, the
\* archive's repositories index maps every name:tag supplied for any of the
\* images to the top layer ID of the last image that supplied it.
C8_IndexFoldsAllImages ==
    AllImagesWritten =>
        \A k \in 1..Len(imageLog) : \A t \in Range(imageLog[k].repoTags) :
            /\ t.name \in DOMAIN ArchiveRepositories
            /\ t.tag \in DOMAIN ArchiveRepositories[t.name]
            /\ \E last \in 1..Len(imageLog) :
                  /\ Supplies(last, t.name, t.tag)
                  /\ \A j \in (last + 1)..Len(imageLog) :
                        ~Supplies(j, t.name, t.tag)
                  /\ ArchiveRepositories[t.name][t.tag]
                        = imageLog[last].rootLayerID

\* What does hold: the index is the fold of the last image's tags alone.
IndexHoldsLastImageOnly ==
    AllImagesWritten =>
        LET last == imageLog[Len(imageLog)]
        IN  /\ DOMAIN ArchiveRepositories
                 = {t.name : t \in Range(last.repoTags)}
            /\ \A n \in DOMAIN ArchiveRepositories :
                  /\ DOMAIN ArchiveRepositories[n]
                       = {t.tag : t \in {u \in Range(last.repoTags) : u.name = n}}
                  /\ \A x \in DOMAIN ArchiveRepositories[n] :
                        ArchiveRepositories[n][x] = last.rootLayerID

=============================================================================
